---- MODULE Spec2Model ----
(***************************************************************************)
(* Model of the GDAL raster renderers of spillway/renderers.py:            *)
(* BaseGDALRenderer (file_ext, basename, render, _render_items,            *)
(* set_filename, set_response_length) and GeoTIFFZipRenderer.render.       *)
(*                                                                         *)
(* A Python 2 str (a path, a file name, the bytes of a raster) is a        *)
(* sequence of one-character strings; the null byte is the token "NUL".    *)
(* One behaviour is one render() call: Init draws the renderer class, the  *)
(* items, the clip geometry of the view and the renderer context.          *)
(***************************************************************************)
EXTENDS Integers, Sequences, FiniteSets, TLC

\* Largest number of items in the data of one render call.
MaxItems == 2

NUL == "NUL"

----------------------------------------------------------------------------
\* String helpers (os.path and str methods used by the renderers).

\* os.extsep
extsep == "."

\* os.sep
sep == "/"

\* str.rfind for a single character: the last index of c in s, 0 if none.
RFind(s, c) ==
    LET idx == {k \in 1..Len(s) : s[k] = c}
    IN  IF idx = {} THEN 0 ELSE CHOOSE k \in idx : \A j \in idx : j <= k

\* str.endswith
EndsWith(s, suffix) ==
    /\ Len(suffix) <= Len(s)
    /\ SubSeq(s, Len(s) - Len(suffix) + 1, Len(s)) = suffix

\* os.path.basename: everything after the last separator.
PathBasename(p) == SubSeq(p, RFind(p, sep) + 1, Len(p))

\* os.path.splitext: split at the last dot that follows the last separator,
\* unless the file name has only dots before it (leading dots are skipped).
SplitExt(p) ==
    LET sepIndex == RFind(p, sep)
        dotIndex == RFind(p, extsep)
    IN  IF /\ dotIndex > sepIndex
           /\ \E k \in (sepIndex + 1)..(dotIndex - 1) : p[k] # extsep
        THEN <<SubSeq(p, 1, dotIndex - 1), SubSeq(p, dotIndex, Len(p))>>
        ELSE <<p, <<>>>>

\* os.path.join of two relative components.
PathJoin(a, b) == IF Len(b) > 0 /\ b[1] = sep THEN b ELSE a \o <<sep>> \o b

----------------------------------------------------------------------------
\* The renderer classes, by their format attribute.

FormatTif    == <<"t", "i", "f">>
FormatImg    == <<"i", "m", "g">>
FormatTifZip == <<"t", "i", "f", ".", "z", "i", "p">>
FormatImgZip == <<"i", "m", "g", ".", "z", "i", "p">>

\* HFARenderer, GeoTIFFRenderer, GeoTIFFZipRenderer, HFAZipRenderer
Formats == {FormatImg, FormatTif, FormatTifZip, FormatImgZip}

\* The classes whose render is GeoTIFFZipRenderer.render.
IsArchive(format) == format \in {FormatTifZip, FormatImgZip}

\* GeoTIFFZipRenderer.arcdirname
arcdirname == <<"d", "a", "t", "a">>

\* BaseGDALRenderer.file_ext
file_ext(format) == <<extsep>> \o SplitExt(format)[1]

\* BaseGDALRenderer.basename
basename(path, format) == SplitExt(PathBasename(path))[1] \o file_ext(format)

----------------------------------------------------------------------------
\* The environment of a render call: stored files and the raster codec.

PathATif  == <<"a", ".", "t", "i", "f">>
PathAImg  == <<"a", ".", "i", "m", "g">>
PathDATif == <<"d", "/", "a", ".", "t", "i", "f">>
PathBTif  == <<"b", ".", "t", "i", "f">>

\* The values item['path'] is drawn from; PathBTif names no stored file.
Paths == {PathATif, PathAImg, PathDATif, PathBTif}

\* The stored raster files and their bytes.
FileSystem ==
    (PathATif :> <<"I", "I", NUL>>) @@ (PathAImg :> <<"E", NUL>>)
        @@ (PathDATif :> <<"I", NUL>>)

\* The bytes memio.read() can return after the codec has encoded a raster:
\* with a null byte, without one, and without one while spelling the name of
\* a stored file.
ImgBytes == {<<"M", NUL>>, <<"z">>, PathATif}

\* The value of view and view.clean_params().get('g'): None, a geometry
\* whose truth value is False (an empty geometry, len() == 0), or a
\* geometry whose truth value is True.
GeomParams == {"None", "Empty", "Shape"}

\* Python truth value of the geom local of _render_items.
Truthy(geomval) == geomval \in {"Shape", "Geometry"}

\* os.stat(name) under Python 2: TypeError for a str with a null byte,
\* OSError for a name that is not a stored file.
Stat(name) ==
    IF \E k \in 1..Len(name) : name[k] = NUL THEN "TypeError"
    ELSE IF name \notin DOMAIN FileSystem THEN "OSError"
    ELSE "ok"

\* os.path.isfile(img) as render uses it: os.path.isfile swallows os.error,
\* render swallows TypeError.
IsFile(img) == Stat(img) = "ok"

\* os.path.getsize
GetSize(name) == Len(FileSystem[name])

----------------------------------------------------------------------------
VARIABLES
    format,     \* self.format of the renderer handling the call
    data,       \* the items of the call, each the value of item['path']
    g,          \* the clip geometry the view's cleaned parameters carry
    hasResponse,\* whether renderer_context is a dict with a 'response'
    pc,         \* position of the call
    geom,       \* the geom local of _render_items
    imgdata,    \* the imgdata list of _render_items
    memio,      \* indices of the items whose MemFileIO is open
    codec,      \* the calls made to the raster codec, in order
    response,   \* headers set on renderer_context['response']
    fp,         \* the temporary file of GeoTIFFZipRenderer.render
    zf,         \* the entries written to the ZipFile, in order
    result,     \* the FileWrapper returned
    error       \* the exception that left render, "none" if none

vars == <<format, data, g, hasResponse, pc, geom, imgdata, memio, codec,
          response, fp, zf, result, error>>

inputs == <<format, data, g, hasResponse>>

\* Sequences over S of length at most n.
SeqUpTo(S, n) == UNION {[1..k -> S] : k \in 0..n}

NoResult == [filelike |-> "none", content |-> <<>>]

Init ==
    /\ format \in Formats
    /\ data \in SeqUpTo(Paths, MaxItems)
    /\ g \in GeomParams
    /\ hasResponse \in BOOLEAN
    /\ pc = "render"
    /\ geom = "None"
    /\ imgdata = <<>>
    /\ memio = {}
    /\ codec = <<>>
    /\ response = <<>>
    /\ fp = [state |-> "none", size |-> 0, pos |-> 0]
    /\ zf = <<>>
    /\ result = NoResult
    /\ error = "none"

----------------------------------------------------------------------------
\* BaseGDALRenderer.set_filename: the header is set unless the context has
\* no response (KeyError, TypeError are swallowed).
set_filename(resp, name, fmt, has) ==
    IF has
    THEN ("Content-Disposition" :>
            [type |-> "attachment", filename |-> name \o <<".">> \o fmt])
         @@ resp
    ELSE resp

\* BaseGDALRenderer.set_response_length
set_response_length(resp, length, has) ==
    IF has THEN ("Content-Length" :> length) @@ resp ELSE resp

\* The head of _render_items, up to the loop: the geometry of the view, the
\* driver lookup, and the conversion of a true geometry for the codec.
RenderItemsHead ==
    /\ codec' = Append(codec, [op |-> "driver_for_path", item |-> 0])
    /\ geom' = IF Truthy(g) THEN "Geometry" ELSE g
    /\ imgdata' = <<>>

\* BaseGDALRenderer.render up to the loop of _render_items: data[0] of an
\* empty list raises IndexError, otherwise the file name is set first.
BaseRenderBegin ==
    /\ pc = "render"
    /\ ~IsArchive(format)
    /\ IF data = <<>>
       THEN /\ pc' = "failed"
            /\ error' = "IndexError"
            /\ UNCHANGED <<geom, imgdata, codec, response>>
       ELSE /\ response' = set_filename(response, basename(data[1], format),
                                        format, hasResponse)
            /\ RenderItemsHead
            /\ pc' = "items"
            /\ UNCHANGED error
    /\ UNCHANGED <<inputs, memio, fp, zf, result>>

\* GeoTIFFZipRenderer.render up to the loop of _render_items.
ZipRenderBegin ==
    /\ pc = "render"
    /\ IsArchive(format)
    /\ RenderItemsHead
    /\ pc' = "items"
    /\ UNCHANGED <<inputs, memio, response, fp, zf, result, error>>

\* The test of _render_items that skips the conversion of an item.
NoConversionNeeded(geomval, imgpath, fmt) ==
    ~Truthy(geomval) /\ EndsWith(imgpath, file_ext(fmt))

\* One turn of the loop of _render_items for an item that needs no
\* conversion: its path is appended.
RenderItemPath ==
    /\ pc = "items"
    /\ Len(imgdata) < Len(data)
    /\ LET imgpath == data[Len(imgdata) + 1]
       IN  /\ NoConversionNeeded(geom, imgpath, format)
           /\ imgdata' = Append(imgdata, [origin |-> "FilePath",
                                          value |-> imgpath])
    /\ UNCHANGED <<inputs, pc, geom, memio, codec, response, fp, zf, result,
                   error>>

\* The codec calls of one conversion, in order.
CodecCalls(geomval, i) ==
    IF Truthy(geomval)
    THEN <<[op |-> "Raster", item |-> i], [op |-> "clip", item |-> i],
           [op |-> "save", item |-> i]>>
    ELSE <<[op |-> "copy", item |-> i]>>

\* One turn of the loop of _render_items for an item that is converted:
\* a MemFileIO is opened, the codec clips and saves, or copies, into it, its
\* bytes are appended and it is closed.
RenderItemConvert ==
    /\ pc = "items"
    /\ Len(imgdata) < Len(data)
    /\ LET i == Len(imgdata) + 1
           imgpath == data[i]
       IN  /\ ~NoConversionNeeded(geom, imgpath, format)
           /\ imgpath \in DOMAIN FileSystem
           /\ codec' = codec \o CodecCalls(geom, i)
           /\ \E bytes \in ImgBytes :
                imgdata' = Append(imgdata, [origin |-> "InMemory",
                                            value |-> bytes])
           /\ memio' = (memio \cup {i}) \ {i}
    /\ UNCHANGED <<inputs, pc, geom, response, fp, zf, result, error>>

\* One turn of the loop of _render_items in which the codec raises: the
\* source is no stored file (the first call fails), or the clip or the
\* encoding fails. The exception leaves render; memio.close() is not reached.
RenderItemCodecError ==
    /\ pc = "items"
    /\ Len(imgdata) < Len(data)
    /\ LET i == Len(imgdata) + 1
           imgpath == data[i]
           calls == CodecCalls(geom, i)
       IN  /\ ~NoConversionNeeded(geom, imgpath, format)
           /\ \E n \in 1..Len(calls) :
                /\ imgpath \notin DOMAIN FileSystem => n = 1
                /\ codec' = codec \o SubSeq(calls, 1, n)
           /\ memio' = memio \cup {i}
    /\ pc' = "failed"
    /\ error' = "CodecError"
    /\ UNCHANGED <<inputs, geom, imgdata, response, fp, zf, result>>

\* BaseGDALRenderer.render after _render_items: the first result is wrapped;
\* when it names a stored file the length is set and the file is opened.
BaseRenderReturn ==
    /\ pc = "items"
    /\ ~IsArchive(format)
    /\ Len(imgdata) = Len(data)
    /\ LET img == imgdata[1].value
       IN  IF IsFile(img)
           THEN /\ response' = set_response_length(response, GetSize(img),
                                                   hasResponse)
                /\ result' = [filelike |-> "file", content |-> FileSystem[img]]
           ELSE /\ result' = [filelike |-> "str", content |-> img]
                /\ UNCHANGED response
    /\ pc' = "done"
    /\ UNCHANGED <<inputs, geom, imgdata, memio, codec, fp, zf, error>>

----------------------------------------------------------------------------
\* The zip archive written to the temporary file (stored, not compressed).

\* Bytes one member takes in the file: local header, name, contents.
MemberLen(entry) == 30 + Len(entry.arcname) + Len(entry.content)

\* Bytes ZipFile.close() appends: a central directory record per member and
\* the end record.
RECURSIVE CentralDirLen(_)
CentralDirLen(entries) ==
    IF entries = <<>> THEN 22
    ELSE 46 + Len(Head(entries).arcname) + CentralDirLen(Tail(entries))

\* file.write of n bytes at the current position.
FileWrite(f, n) ==
    [f EXCEPT !.pos = @ + n,
              !.size = IF f.pos + n > @ THEN f.pos + n ELSE @]

\* file.tell
Tell(f) == f.pos

\* file.seek
Seek(f, offset) == [f EXCEPT !.pos = offset]

\* GeoTIFFZipRenderer.render after _render_items, up to the loop over the
\* members: the file name is set and the temporary file is created.
ZipRenderOpen ==
    /\ pc = "items"
    /\ IsArchive(format)
    /\ Len(imgdata) = Len(data)
    /\ response' = set_filename(response, arcdirname, format, hasResponse)
    /\ fp' = [state |-> "open", size |-> 0, pos |-> 0]
    /\ pc' = "zip"
    /\ UNCHANGED <<inputs, geom, imgdata, memio, codec, zf, result, error>>

\* The member zf.write(raster, arcname=arcname) adds, or, when os.stat
\* raises TypeError, the member zf.writestr(arcname, raster) adds.
ZipMember(raster, arcname) ==
    IF Stat(raster) = "ok"
    THEN [arcname |-> arcname, content |-> FileSystem[raster],
          via |-> "write"]
    ELSE [arcname |-> arcname, content |-> raster, via |-> "writestr"]

\* One turn of the loop over zip(rendered, data) that adds a member.
ZipWrite ==
    /\ pc = "zip"
    /\ Len(zf) < Len(imgdata)
    /\ LET i == Len(zf) + 1
           raster == imgdata[i].value
           arcname == PathJoin(arcdirname, basename(data[i], format))
           member == ZipMember(raster, arcname)
       IN  /\ Stat(raster) # "OSError"
           /\ zf' = Append(zf, member)
           /\ fp' = FileWrite(fp, MemberLen(member))
    /\ UNCHANGED <<inputs, pc, geom, imgdata, memio, codec, response, result,
                   error>>

\* One turn of the loop in which os.stat(raster) raises OSError: raster has
\* no null byte and names no stored file. The with block closes the ZipFile
\* on the way out; the temporary file is left as it is.
ZipWriteOSError ==
    /\ pc = "zip"
    /\ Len(zf) < Len(imgdata)
    /\ Stat(imgdata[Len(zf) + 1].value) = "OSError"
    /\ fp' = FileWrite(fp, CentralDirLen(zf))
    /\ pc' = "failed"
    /\ error' = "OSError"
    /\ UNCHANGED <<inputs, geom, imgdata, memio, codec, response, zf, result>>

\* ZipRenderReturn with the length taken inside the with block, before
\* ZipFile.close() has appended the central directory.
ZipRenderReturnLengthBeforeClose ==
    /\ pc = "zip"
    /\ Len(zf) = Len(imgdata)
    /\ LET closed == FileWrite(fp, CentralDirLen(zf))
       IN  /\ response' = set_response_length(response, Tell(fp), hasResponse)
           /\ fp' = Seek(closed, 0)
    /\ result' = [filelike |-> "tempfile", content |-> zf]
    /\ pc' = "done"
    /\ UNCHANGED <<inputs, geom, imgdata, memio, codec, zf, error>>

\* GeoTIFFZipRenderer.render after the loop: the ZipFile is closed, the
\* length is set from the position of the temporary file, the file is
\* rewound and wrapped.
ZipRenderReturn ==
    /\ pc = "zip"
    /\ Len(zf) = Len(imgdata)
    /\ LET closed == FileWrite(fp, CentralDirLen(zf))
       IN  /\ response' = set_response_length(response, Tell(closed),
                                               hasResponse)
           /\ fp' = Seek(closed, 0)
    /\ result' = [filelike |-> "tempfile", content |-> zf]
    /\ pc' = "done"
    /\ UNCHANGED <<inputs, geom, imgdata, memio, codec, zf, error>>

Next ==
    \/ BaseRenderBegin
    \/ ZipRenderBegin
    \/ RenderItemPath
    \/ RenderItemConvert
    \/ RenderItemCodecError
    \/ BaseRenderReturn
    \/ ZipRenderOpen
    \/ ZipWrite
    \/ ZipWriteOSError
    \/ ZipRenderReturn

Spec == Init /\ [][Next]_vars

\* The number of bytes a reader of the returned wrapper gets.
ReadableLen ==
    IF result.filelike = "tempfile" THEN fp.size - fp.pos
    ELSE Len(result.content)

TypeOK ==
    /\ pc \in {"render", "items", "zip", "done", "failed"}
    /\ Len(imgdata) <= Len(data)
    /\ Len(zf) <= Len(imgdata)

----------------------------------------------------------------------------
\* Properties.

\* The file stem of an item: its file name without the extension.
Stem(path) == SplitExt(PathBasename(path))[1]

\* The single-file extension of a format, without the dot.
SingleExt(fmt) == IF IsArchive(fmt) THEN SplitExt(fmt)[1] ELSE fmt

\* The bytes a rendered result stands for.
RenderedBytes(r) ==
    IF r.origin = "FilePath" THEN FileSystem[r.value] ELSE r.value

\* C1: an item is passed through (its path appended, no conversion) exactly
\* when no geometry was supplied and the extension of its path equals the
\* single-file extension of the format.
C1_PassthroughIffNoGeometryAndSameExt ==
    \A i \in 1..Len(imgdata) :
        (imgdata[i].origin = "FilePath")
            <=> (g = "None" /\ SplitExt(data[i])[2] = <<".">> \o SingleExt(format))

\* C2: in a non-archive render no codec operation is performed on an item
\* after the first.
C2_OnlyFirstItemReachesCodec ==
    ~IsArchive(format) => \A k \in 1..Len(codec) : codec[k].item <= 1

\* C3: a finished call all of whose items were passed through has made no
\* codec call, driver lookup included, and hands back the stored bytes.
C3_AllPassthroughNoCodec ==
    (/\ pc = "done"
     /\ Len(data) >= 1
     /\ \A i \in 1..Len(imgdata) : imgdata[i].origin = "FilePath")
        => /\ codec = <<>>
           /\ IF IsArchive(format)
              THEN \A i \in 1..Len(zf) : zf[i].content = FileSystem[data[i]]
              ELSE /\ data[1] \in DOMAIN FileSystem
                   /\ result.content = FileSystem[data[1]]

\* C4: when two items of an archive render derive the same entry name, the
\* call fails before any entry is written.
C4_DuplicateNamesRejected ==
    (/\ IsArchive(format)
     /\ \E i, j \in 1..Len(data) :
            i < j /\ Stem(data[i]) = Stem(data[j]))
        => zf = <<>> /\ pc # "done"

\* C5: a successful archive render of N items has N entries in input order,
\* the i-th named by the stem of the i-th item plus the single-file
\* extension and holding the rendered result of the i-th item.
C5_ArchiveEntriesInOrder ==
    (pc = "done" /\ IsArchive(format))
        => /\ Len(zf) = Len(data)
           /\ \A i \in 1..Len(zf) :
                /\ zf[i].arcname = arcdirname \o <<"/">> \o Stem(data[i])
                                       \o <<".">> \o SingleExt(format)
                /\ zf[i].content = RenderedBytes(imgdata[i])

\* C6: when a render call fails, no MemFileIO and no temporary file is left
\* open.
C6_NoBufferOpenAfterFailure ==
    pc = "failed" => memio = {} /\ fp.state # "open"

\* C7: after a successful archive render with a response, Content-Length is
\* the number of bytes readable from the returned, rewound wrapper.
C7_ArchiveContentLength ==
    (pc = "done" /\ IsArchive(format) /\ hasResponse)
        => /\ "Content-Length" \in DOMAIN response
           /\ response["Content-Length"] = ReadableLen

\* An archive of a passed-through and a converted item was returned.
C7_Witness ==
    /\ pc = "done" /\ IsArchive(format) /\ hasResponse
    /\ Len(zf) = 2
    /\ zf[1].via = "write" /\ zf[2].via = "writestr"
    /\ response["Content-Length"] > 22

\* C8: after a successful non-archive render with a response, Content-Length
\* is set and is the length of the returned bytes.
C8_SingleContentLength ==
    (pc = "done" /\ ~IsArchive(format) /\ hasResponse)
        => /\ "Content-Length" \in DOMAIN response
           /\ response["Content-Length"] = ReadableLen

\* C9: the file name of Content-Disposition is the stem of the first item
\* (non-archive) or the container name (archive), followed by the extension
\* of the format once.
C9_FilenameExtensionOnce ==
    (pc = "done" /\ hasResponse)
        => /\ "Content-Disposition" \in DOMAIN response
           /\ response["Content-Disposition"].filename =
                (IF IsArchive(format) THEN arcdirname ELSE Stem(data[1]))
                    \o <<".">> \o format

\* C10: an entry is written by path exactly when its rendered result is a
\* file path, and a converted result is never refused by the archive.
C10_WritePathByOrigin ==
    IsArchive(format)
        => /\ \A i \in 1..Len(zf) :
                zf[i].via = IF imgdata[i].origin = "FilePath"
                            THEN "write" ELSE "writestr"
           /\ (pc = "failed" /\ error = "OSError")
                => imgdata[Len(zf) + 1].origin = "FilePath"

====
